---------------------------- MODULE Spec2Model ----------------------------
(***************************************************************************)
(* Model of app.py: the Streamlit script that turns a participant          *)
(* spreadsheet into one output table per JENIS_TES.                        *)
(*                                                                         *)
(* Text is modelled as a sequence of one-character strings, so that        *)
(* trimming, regular-expression substitution, lower-casing, ordering and   *)
(* date parsing are computed and not assumed.                              *)
(*                                                                         *)
(* A spreadsheet cell is a record [t, s, n]:                               *)
(*   t = "str"  text s             t = "nan"  missing cell (float NaN)     *)
(*   t = "num"  the number n       t = "none" Python None                  *)
(* read_sheet (dtype=str) only ever yields "str" and "nan" cells.          *)
(*                                                                         *)
(* The library calls are modelled as pandas 2 behaves with object-dtype    *)
(* text columns: astype(str) renders a missing cell as "nan", groupby      *)
(* sorts its keys, a Timestamp holds nanoseconds (1677-09-22..2262-04-11)  *)
(* and pd.to_datetime reads a bare number as nanoseconds since 1970.       *)
(***************************************************************************)
EXTENDS Integers, Sequences, FiniteSets, TLC

(***************************************************************************)
(* Cells                                                                   *)
(***************************************************************************)
Str(s) == [t |-> "str", s |-> s, n |-> 0]
Num(n) == [t |-> "num", s |-> <<>>, n |-> n]
NaN == [t |-> "nan", s |-> <<>>, n |-> 0]
PyNone == [t |-> "none", s |-> <<>>, n |-> 0]

(***************************************************************************)
(* Characters and text                                                     *)
(***************************************************************************)
\* The characters used, in ascending code point order.
CodePoints ==
    << "\t", " ", "(", ")", "*", "-", ".", "/",
       "0", "1", "2", "3", "4", "5", "6", "7", "8", "9", ":", "?",
       "A", "B", "C", "D", "E", "F", "G", "H", "I", "J", "K", "L", "M",
       "N", "O", "P", "Q", "R", "S", "T", "U", "V", "W", "X", "Y", "Z", "_",
       "a", "b", "c", "d", "e", "f", "g", "h", "i", "j", "k", "l", "m",
       "n", "o", "p", "q", "r", "s", "t", "u", "v", "w", "x", "y", "z", "|" >>

Ord(c) == CHOOSE i \in 1..Len(CodePoints) : CodePoints[i] = c

Upper == << "A", "B", "C", "D", "E", "F", "G", "H", "I", "J", "K", "L", "M",
            "N", "O", "P", "Q", "R", "S", "T", "U", "V", "W", "X", "Y", "Z" >>
Lowers == << "a", "b", "c", "d", "e", "f", "g", "h", "i", "j", "k", "l", "m",
             "n", "o", "p", "q", "r", "s", "t", "u", "v", "w", "x", "y", "z" >>

LowerChar(c) ==
    IF \E i \in 1..Len(Upper) : Upper[i] = c
    THEN Lowers[CHOOSE i \in 1..Len(Upper) : Upper[i] = c]
    ELSE c

\* str.lower() with the case folding left out.
LowerKeepCase(s) == s

\* str.lower()
Lower(s) == [i \in 1..Len(s) |-> LowerChar(s[i])]

IsSpace(c) == c \in {" ", "\t", "\n"}

RECURSIVE LStrip(_)
LStrip(s) == IF s # <<>> /\ IsSpace(Head(s)) THEN LStrip(Tail(s)) ELSE s

RECURSIVE RStrip(_)
RStrip(s) ==
    IF s # <<>> /\ IsSpace(s[Len(s)]) THEN RStrip(SubSeq(s, 1, Len(s) - 1)) ELSE s

\* str.strip()
Strip(s) == RStrip(LStrip(s))

\* Python's s < t on text: lexicographic by code point.
RECURSIVE LexLess(_, _)
LexLess(s, t) ==
    IF t = <<>> THEN FALSE
    ELSE IF s = <<>> THEN TRUE
    ELSE IF Head(s) = Head(t) THEN LexLess(Tail(s), Tail(t))
    ELSE Ord(Head(s)) < Ord(Head(t))

EndsWith(s, suf) ==
    Len(s) >= Len(suf) /\ SubSeq(s, Len(s) - Len(suf) + 1, Len(s)) = suf

RECURSIVE Split(_, _)
\* str.split(sep) for a one-character separator.
Split(s, sep) ==
    IF \A i \in 1..Len(s) : s[i] # sep THEN << s >>
    ELSE LET i == CHOOSE j \in 1..Len(s) :
                      s[j] = sep /\ \A k \in 1..(j - 1) : s[k] # sep
         IN << SubSeq(s, 1, i - 1) >> \o Split(SubSeq(s, i + 1, Len(s)), sep)

(***************************************************************************)
(* Numbers as text                                                         *)
(***************************************************************************)
Digits == << "0", "1", "2", "3", "4", "5", "6", "7", "8", "9" >>
IsDigit(c) == \E i \in 1..10 : Digits[i] = c
DigitVal(c) == (CHOOSE i \in 1..10 : Digits[i] = c) - 1
AllDigits(s) == s # <<>> /\ \A i \in 1..Len(s) : IsDigit(s[i])

RECURSIVE ParseNat(_)
ParseNat(s) ==
    IF s = <<>> THEN 0
    ELSE 10 * ParseNat(SubSeq(s, 1, Len(s) - 1)) + DigitVal(s[Len(s)])

RECURSIVE NatToStr(_)
NatToStr(n) ==
    IF n < 10 THEN << Digits[n + 1] >>
    ELSE NatToStr(n \div 10) \o << Digits[(n % 10) + 1] >>

Pad2(n) == IF n < 10 THEN << "0" >> \o NatToStr(n) ELSE NatToStr(n)

(***************************************************************************)
(* Calendar                                                                *)
(***************************************************************************)
IsLeap(y) == (y % 4 = 0 /\ y % 100 # 0) \/ y % 400 = 0

DaysInMonth(y, m) ==
    IF m = 2 THEN (IF IsLeap(y) THEN 29 ELSE 28)
    ELSE IF m \in {4, 6, 9, 11} THEN 30 ELSE 31

ValidDate(y, m, d) ==
    /\ y \in 1..9999
    /\ m \in 1..12
    /\ d >= 1
    /\ d <= DaysInMonth(y, m)

\* Days from 1970-01-01 to y-m-d (proleptic Gregorian), y >= 1.
DaysFromCivil(y, m, d) ==
    LET yy == IF m <= 2 THEN y - 1 ELSE y
        era == yy \div 400
        yoe == yy - era * 400
        mp == (m + 9) % 12
        doy == (153 * mp + 2) \div 5 + d - 1
        doe == yoe * 365 + yoe \div 4 - yoe \div 100 + doy
    IN era * 146097 + doe - 719468

\* The date z days after 1970-01-01, z >= -719468.
CivilFromDays(z) ==
    LET zz == z + 719468
        era == zz \div 146097
        doe == zz - era * 146097
        yoe == (doe - doe \div 1460 + doe \div 36524 - doe \div 146096) \div 365
        doy == doe - (365 * yoe + yoe \div 4 - yoe \div 100)
        mp == (5 * doy + 2) \div 153
        d == doy - (153 * mp + 2) \div 5 + 1
        m == IF mp < 10 THEN mp + 3 ELSE mp - 9
        y == yoe + era * 400 + (IF m <= 2 THEN 1 ELSE 0)
    IN [y |-> y, m |-> m, d |-> d]

(***************************************************************************)
(* pandas timestamps.  A library call yields a timestamp, NaT, or raises.  *)
(***************************************************************************)
Raise == [k |-> "raise", y |-> 0, m |-> 0, d |-> 0]
NaT == [k |-> "nat", y |-> 0, m |-> 0, d |-> 0]
TS(y, m, d) == [k |-> "ts", y |-> y, m |-> m, d |-> d]

\* pd.Timestamp holds nanoseconds in 64 bits: midnights from 1677-09-22 to
\* 2262-04-11, that is 106751 days either side of 1970-01-01.
InBounds(days) == days >= -106751 /\ days <= 106751

\* A calendar date as a Timestamp: ValueError for an impossible date,
\* OutOfBoundsDatetime outside the nanosecond range.
MkTimestamp(y, m, d) ==
    IF ValidDate(y, m, d) /\ InBounds(DaysFromCivil(y, m, d))
    THEN TS(y, m, d)
    ELSE Raise

TimestampOfDays(days) ==
    IF InBounds(days)
    THEN LET c == CivilFromDays(days) IN TS(c.y, c.m, c.d)
    ELSE Raise

\* dt.strftime("%Y-%m-%d"); the C library prints %Y without padding.
Strftime(ts) ==
    NatToStr(ts.y) \o << "-" >> \o Pad2(ts.m) \o << "-" >> \o Pad2(ts.d)


(***************************************************************************)
(* Date text                                                               *)
(***************************************************************************)
\* %b and %B month names (C locale).
MonthAbbr ==
    << << "J", "a", "n" >>,
       << "F", "e", "b" >>,
       << "M", "a", "r" >>,
       << "A", "p", "r" >>,
       << "M", "a", "y" >>,
       << "J", "u", "n" >>,
       << "J", "u", "l" >>,
       << "A", "u", "g" >>,
       << "S", "e", "p" >>,
       << "O", "c", "t" >>,
       << "N", "o", "v" >>,
       << "D", "e", "c" >> >>

MonthFull ==
    << << "J", "a", "n", "u", "a", "r", "y" >>,
       << "F", "e", "b", "r", "u", "a", "r", "y" >>,
       << "M", "a", "r", "c", "h" >>,
       << "A", "p", "r", "i", "l" >>,
       << "M", "a", "y" >>,
       << "J", "u", "n", "e" >>,
       << "J", "u", "l", "y" >>,
       << "A", "u", "g", "u", "s", "t" >>,
       << "S", "e", "p", "t", "e", "m", "b", "e", "r" >>,
       << "O", "c", "t", "o", "b", "e", "r" >>,
       << "N", "o", "v", "e", "m", "b", "e", "r" >>,
       << "D", "e", "c", "e", "m", "b", "e", "r" >> >>

MonthIndex(names, w) ==
    IF \E i \in 1..12 : names[i] = w
    THEN CHOOSE i \in 1..12 : names[i] = w
    ELSE 0

\* Text pandas reads as a missing timestamp.
nat_strings ==
    { << "N", "a", "T" >>, << "n", "a", "t" >>, << "N", "A", "T" >>,
      << "n", "a", "n" >>, << "N", "a", "N" >>, << "N", "A", "N" >> }

\* re.fullmatch(r"\d+(\.\d+)?", x)
IsNumericText(s) ==
    LET p == Split(s, ".")
    IN Len(p) \in {1, 2} /\ \A i \in 1..Len(p) : AllDigits(p[i])

\* The integral part of float(x) for numeric text.
FloatFloor(s) == ParseNat(Split(s, ".")[1])

\* <1-2 digits> sep <1-2 digits> sep <4 digits>
IsDMY(s, sep) ==
    LET p == Split(s, sep)
    IN /\ Len(p) = 3
       /\ \A i \in 1..3 : AllDigits(p[i])
       /\ Len(p[1]) \in 1..2
       /\ Len(p[2]) \in 1..2
       /\ Len(p[3]) = 4

\* <4 digits> sep <1-2 digits> sep <1-2 digits>
IsYMD(s, sep) ==
    LET p == Split(s, sep)
    IN /\ Len(p) = 3
       /\ \A i \in 1..3 : AllDigits(p[i])
       /\ Len(p[1]) = 4
       /\ Len(p[2]) \in 1..2
       /\ Len(p[3]) \in 1..2

\* <1-2 digits> <month name> <4 digits>
IsDMonY(s, names) ==
    LET p == Split(s, " ")
    IN /\ Len(p) = 3
       /\ AllDigits(p[1])
       /\ Len(p[1]) \in 1..2
       /\ MonthIndex(names, p[2]) # 0
       /\ AllDigits(p[3])
       /\ Len(p[3]) = 4

(***************************************************************************)
(* pd.to_datetime(x, errors="raise", dayfirst=True), line 77, on the       *)
(* inputs of this model.  Text forms covered: NaT words, digits with an    *)
(* optional decimal part (integral part below 1000, or 4 or 5 digits       *)
(* without a decimal part), d/m/Y and d-m-Y, Y-m-d and Y/m/d, "d Mon Y"    *)
(* with an abbreviated or a full month name; any other text raises.        *)
(***************************************************************************)
\* Digits only.  A value below 1000 is "not likely a datetime" (or, with a
\* leading zero, a year before 1677); four digits are a year; five digits
\* are a year beyond 9999.
ParseNumericText(s) ==
    LET p == Split(s, ".")
        n == ParseNat(p[1])
    IN CASE n < 1000 -> Raise
         [] n >= 1000 /\ Len(p) = 1 /\ Len(p[1]) = 4 -> MkTimestamp(n, 1, 1)
         [] n >= 1000 /\ Len(p) = 1 /\ Len(p[1]) = 5 -> Raise

\* Delimited day, month, year: the first number is the day when the second
\* can be a month (dayfirst), otherwise the first is the month.
ParseDelimited(a, b, y, dayfirst) ==
    IF a \in 1..31 /\ b \in 1..31 /\ (a <= 12 \/ b <= 12)
    THEN IF a > 12 \/ (b <= 12 /\ dayfirst)
         THEN MkTimestamp(y, b, a)
         ELSE MkTimestamp(y, a, b)
    ELSE Raise

\* Year first: ISO 8601 year-month-day; when that is no date, dateutil with
\* dayfirst reads year, day, month if the last number can be a month.
ParseYearFirst(y, a, b, dayfirst) ==
    IF ValidDate(y, a, b) THEN MkTimestamp(y, a, b)
    ELSE IF dayfirst /\ b <= 12 THEN MkTimestamp(y, b, a)
    ELSE Raise

ParseDateText(s0, dayfirst) ==
    LET s == Strip(s0)
        sl == Split(s, "/")
        da == Split(s, "-")
        sp == Split(s, " ")
    IN IF s0 \in nat_strings THEN NaT
       ELSE IF IsNumericText(s) THEN ParseNumericText(s)
       ELSE IF IsYMD(s, "-")
            THEN ParseYearFirst(ParseNat(da[1]), ParseNat(da[2]), ParseNat(da[3]), dayfirst)
       ELSE IF IsYMD(s, "/")
            THEN ParseYearFirst(ParseNat(sl[1]), ParseNat(sl[2]), ParseNat(sl[3]), dayfirst)
       ELSE IF IsDMY(s, "/")
            THEN ParseDelimited(ParseNat(sl[1]), ParseNat(sl[2]), ParseNat(sl[3]), dayfirst)
       ELSE IF IsDMY(s, "-")
            THEN ParseDelimited(ParseNat(da[1]), ParseNat(da[2]), ParseNat(da[3]), dayfirst)
       ELSE IF IsDMonY(s, MonthAbbr)
            THEN MkTimestamp(ParseNat(sp[3]), MonthIndex(MonthAbbr, sp[2]), ParseNat(sp[1]))
       ELSE IF IsDMonY(s, MonthFull)
            THEN MkTimestamp(ParseNat(sp[3]), MonthIndex(MonthFull, sp[2]), ParseNat(sp[1]))
       ELSE Raise

\* A number is nanoseconds since 1970-01-01 (|n| below one day of them here);
\* a float NaN is NaT.
to_datetime(x, dayfirst) ==
    CASE x.t = "num" -> TimestampOfDays(IF x.n >= 0 THEN 0 ELSE -1)
      [] x.t = "nan" -> NaT
      [] x.t = "str" -> ParseDateText(x.s, dayfirst)

\* pd.to_datetime(val, unit="D", origin="1899-12-30", errors="raise"), line 87
to_datetime_serial(val) == TimestampOfDays(DaysFromCivil(1899, 12, 30) + val)

\* The explicit formats of line 94, in order.
\* pd.to_datetime(s, format=fmt), line 96
to_datetime_format(s, fmt) ==
    LET sl == Split(s, "/")
        da == Split(s, "-")
        sp == Split(s, " ")
    IN IF s \in nat_strings THEN NaT
       ELSE CASE fmt = 1 ->
                 IF IsDMY(s, "/")
                 THEN MkTimestamp(ParseNat(sl[3]), ParseNat(sl[2]), ParseNat(sl[1]))
                 ELSE Raise
              [] fmt = 2 ->
                 IF IsDMY(s, "-")
                 THEN MkTimestamp(ParseNat(da[3]), ParseNat(da[2]), ParseNat(da[1]))
                 ELSE Raise
              [] fmt = 3 ->
                 IF IsYMD(s, "/")
                 THEN MkTimestamp(ParseNat(sl[1]), ParseNat(sl[2]), ParseNat(sl[3]))
                 ELSE Raise
              [] fmt = 4 ->
                 IF IsYMD(s, "-")
                 THEN MkTimestamp(ParseNat(da[1]), ParseNat(da[2]), ParseNat(da[3]))
                 ELSE Raise
              [] fmt = 5 ->
                 IF IsDMonY(s, MonthAbbr)
                 THEN MkTimestamp(ParseNat(sp[3]), MonthIndex(MonthAbbr, sp[2]), ParseNat(sp[1]))
                 ELSE Raise
              [] fmt = 6 ->
                 IF IsDMonY(s, MonthFull)
                 THEN MkTimestamp(ParseNat(sp[3]), MonthIndex(MonthFull, sp[2]), ParseNat(sp[1]))
                 ELSE Raise

(***************************************************************************)
(* normalize_date_scalar, lines 67-100                                     *)
(***************************************************************************)
Returned(v) == [k |-> "ok", v |-> v]
Raised == [k |-> "raise", v |-> <<>>]

\* As FormatTimestamp, with NaT printed as text instead of raising.
FormatNaTAsText(r) ==
    CASE r.k = "ts" -> Returned(Strftime(r))
      [] r.k = "nat" -> Returned(<< "N", "a", "T" >>)
      [] r.k = "raise" -> Raised

\* dt.strftime("%Y-%m-%d") on the outcome of a to_datetime call: the call's
\* exception, or ValueError for NaT (NaTType does not support strftime).
FormatTimestamp(r) ==
    CASE r.k = "ts" -> Returned(Strftime(r))
      [] r.k = "nat" -> Raised
      [] r.k = "raise" -> Raised

\* Lines 76-80.
TryGeneral(x) == FormatTimestamp(to_datetime(x, TRUE))

\* Lines 82-90: None when the body falls through without returning.
TrySerial(x) ==
    IF x.t \in {"num", "nan"} \/ (x.t = "str" /\ IsNumericText(x.s))
    THEN IF x.t = "nan" THEN Raised
         ELSE FormatTimestamp(
                  to_datetime_serial(IF x.t = "num" THEN x.n ELSE FloatFloor(x.s)))
    ELSE Raised

RECURSIVE TryFormats(_, _)
\* Lines 94-99: the first format that parses wins.
TryFormats(s, fmt) ==
    IF fmt > 6 THEN Raised
    ELSE LET r == FormatTimestamp(to_datetime_format(s, fmt))
         IN IF r.k = "ok" THEN r ELSE TryFormats(s, fmt + 1)

\* The value returned; every exception of the three attempts is caught.
normalize_date_scalar(x) ==
    IF x.t = "none" THEN <<>>
    ELSE IF x.t = "str" /\ Strip(x.s) = <<>> THEN <<>>
    ELSE LET g == TryGeneral(x)
         IN IF g.k = "ok" THEN g.v
            ELSE LET e == TrySerial(x)
                 IN IF e.k = "ok" THEN e.v
                    ELSE IF x.t = "str"
                         THEN LET f == TryFormats(Strip(x.s), 1)
                              IN IF f.k = "ok" THEN f.v ELSE <<>>
                         ELSE <<>>


(***************************************************************************)
(* Column resolution and file names                                        *)
(***************************************************************************)
\* Optional[str] None, and the select boxes' placeholder entry.
None == << "None" >>
Placeholder == << "(", "p", "i", "l", "i", "h", ")" >>

\* The keys of COLMAP_CANDIDATES and of required_map, in dict order.
Fields == << "NO_PESERTA", "NAMA", "TMPT_LAHIR", "TGL_LAHIR", "JENIS_TES" >>
FieldSet == { Fields[i] : i \in 1..Len(Fields) }

COLMAP_CANDIDATES ==
    [ NO_PESERTA |-> << << "N", "O", "_", "P", "E", "S", "E", "R", "T", "A" >>,
                        << "N", "O", " ", "P", "E", "S", "E", "R", "T", "A" >>,
                        << "N", "I", "P" >>,
                        << "N", "O" >> >>,
      NAMA |-> << << "N", "A", "M", "A" >>,
                  << "N", "A", "M", "A", " ", "P", "E", "S", "E", "R", "T", "A" >> >>,
      TMPT_LAHIR |-> << << "T", "M", "P", "_", "L", "A", "H", "I", "R" >>,
                        << "T", "M", "P", "T", "_", "L", "A", "H", "I", "R" >>,
                        << "T", "E", "M", "P", "A", "T", " ", "L", "A", "H", "I", "R" >>,
                        << "T", "M", "P", " ", "L", "A", "H", "I", "R" >>,
                        << "T", "E", "M", "P", "A", "T", "_", "L", "A", "H", "I", "R" >> >>,
      TGL_LAHIR |-> << << "T", "G", "L", "_", "L", "A", "H", "I", "R" >>,
                       << "T", "A", "N", "G", "G", "A", "L", " ", "L", "A", "H", "I", "R" >>,
                       << "T", "G", "L", " ", "L", "A", "H", "I", "R" >>,
                       << "T", "A", "N", "G", "G", "A", "L", "_", "L", "A", "H", "I", "R" >> >>,
      JENIS_TES |-> << << "J", "E", "N", "I", "S", " ", "T", "E", "S" >>,
                       << "J", "E", "N", "I", "S", "_", "T", "E", "S" >> >> ]

InSeq(e, seq) == \E i \in 1..Len(seq) : seq[i] = e

\* The first position of e in seq (list.index).
IndexOf(seq, e) == CHOOSE i \in 1..Len(seq) : seq[i] = e /\ \A j \in 1..(i - 1) : seq[j] # e

\* As pick_first_existing, but walking the table's columns and returning the
\* first column that is a candidate.
pick_first_column(columns, cands) ==
    IF \E i \in 1..Len(columns) : InSeq(columns[i], cands)
    THEN columns[CHOOSE i \in 1..Len(columns) :
                     /\ InSeq(columns[i], cands)
                     /\ \A j \in 1..(i - 1) : ~InSeq(columns[j], cands)]
    ELSE None

RECURSIVE pick_first_existing(_, _)
pick_first_existing(columns, cands) ==
    IF cands = <<>> THEN None
    ELSE IF InSeq(Head(cands), columns) THEN Head(cands)
    ELSE pick_first_existing(columns, Tail(cands))

\* re.sub(r"[\\/:*?\"<>|]", "-", name)
BadChars == { "\\", "/", ":", "*", "?", "\"", "<", ">", "|" }
ReplaceBadChars(s) == [i \in 1..Len(s) |-> IF s[i] \in BadChars THEN "-" ELSE s[i]]

RECURSIVE CollapseSpace(_)
\* re.sub(r"\s+", " ", name)
CollapseSpace(s) ==
    IF s = <<>> THEN <<>>
    ELSE IF IsSpace(Head(s)) THEN << " " >> \o CollapseSpace(LStrip(s))
    ELSE << Head(s) >> \o CollapseSpace(Tail(s))

sanitize_filename(name) ==
    LET n == Strip(CollapseSpace(ReplaceBadChars(name)))
    IN IF n = <<>> THEN << "o", "u", "t", "p", "u", "t" >> ELSE n

(***************************************************************************)
(* Tables: [present, cols, rows], rows[r][c] the cell of row r in the      *)
(* column at position c.                                                   *)
(***************************************************************************)
NoFile == [present |-> FALSE, cols |-> <<>>, rows |-> <<>>]
Table(cols, rows) == [present |-> TRUE, cols |-> cols, rows |-> rows]

\* df[c]: the cells of the column named c.
Column(df, c) == [r \in 1..Len(df.rows) |-> df.rows[r][IndexOf(df.cols, c)]]

\* .astype(str) on one cell: a missing cell becomes the text "nan".
astype_str(cell) == IF cell.t = "nan" THEN << "n", "a", "n" >> ELSE cell.s

\* df.columns = [str(c).strip() for c in df.columns]
StripColumns(df) ==
    [df EXCEPT !.cols = [i \in 1..Len(df.cols) |-> Strip(df.cols[i])]]

\* {c.lower(): c for c in df_ref.columns}.get(key): the last column whose
\* lower-cased name is key.
LowerLookup(cols, key) ==
    IF \E i \in 1..Len(cols) : Lower(cols[i]) = key
    THEN cols[CHOOSE i \in 1..Len(cols) :
                  /\ Lower(cols[i]) = key
                  /\ \A j \in (i + 1)..Len(cols) : Lower(cols[j]) # key]
    ELSE None

\* ref["ID"] + " — " + ref["NAMA"]; the dash is one character.
Option(id, nama) == id \o << " ", "EM DASH", " " >> \o nama

\* Lines 61-65 of build_ref_options.
RefOptions(df, id_col, nama_col) ==
    [r \in 1..Len(df.rows) |->
        LET id == Strip(astype_str(Column(df, id_col)[r]))
            nama == Strip(astype_str(Column(df, nama_col)[r]))
        IN [ID |-> id, NAMA |-> nama, OPTION |-> Option(id, nama)]]

(***************************************************************************)
(* Transformation                                                          *)
(***************************************************************************)
\* As StripDotZero with the dot left unescaped: r".0$".
StripAnyZero(s) ==
    IF Len(s) >= 2 /\ s[Len(s)] = "0" /\ s[Len(s) - 1] # "\n"
    THEN SubSeq(s, 1, Len(s) - 2)
    ELSE IF Len(s) >= 3 /\ s[Len(s)] = "\n" /\ s[Len(s) - 1] = "0" /\ s[Len(s) - 2] # "\n"
    THEN SubSeq(s, 1, Len(s) - 3) \o << "\n" >>
    ELSE s

\* re.sub(r"\.0$", "", s): $ is the end of the text or just before a final
\* line break.
StripDotZero(s) ==
    IF EndsWith(s, << ".", "0" >>) THEN SubSeq(s, 1, Len(s) - 2)
    ELSE IF EndsWith(s, << ".", "0", "\n" >>) THEN SubSeq(s, 1, Len(s) - 3) \o << "\n" >>
    ELSE s

default_id_pendidikan == 45
default_id_jabatan == 10932
default_id_jenis_jabatan == 4

\* Lines 204-228: one output row per input row; src is the row's position in
\* the input table (the DataFrame index).
WorkRows(df, rmap, picked) ==
    [r \in 1..Len(df.rows) |->
        [ src |-> r,
          NIP |-> StripDotZero(Strip(astype_str(Column(df, rmap.NO_PESERTA)[r]))),
          NAMA |-> Strip(astype_str(Column(df, rmap.NAMA)[r])),
          TMPT_LAHIR |-> Strip(astype_str(Column(df, rmap.TMPT_LAHIR)[r])),
          TGL_LAHIR |-> normalize_date_scalar(Column(df, rmap.TGL_LAHIR)[r]),
          UNIT_KERJA |-> picked.NAMA,
          UNIT_KERJA_INDUK |-> picked.NAMA,
          ID_INSTANSI |-> picked.ID,
          ID_PENDIDIKAN |-> NatToStr(default_id_pendidikan),
          ID_JABATAN |-> NatToStr(default_id_jabatan),
          ID_JENIS_JABATAN |-> NatToStr(default_id_jenis_jabatan),
          JENIS_TES |-> Strip(astype_str(Column(df, rmap.JENIS_TES)[r])) ]]

\* work["JENIS_TES"].isna().all() or (work["JENIS_TES"].str.len() == 0).all():
\* the column holds text only, so isna() is False on every row.
JenisEmpty(w) ==
    \/ \A r \in 1..Len(w) : FALSE
    \/ \A r \in 1..Len(w) : Len(w[r].JENIS_TES) = 0

(***************************************************************************)
(* Grouping                                                                *)
(***************************************************************************)
KeySet(w) == { w[r].JENIS_TES : r \in 1..Len(w) }

RECURSIVE FirstSeenKeys(_)
\* The distinct keys in the order of their first row (groupby sort=False).
FirstSeenKeys(w) ==
    IF w = <<>> THEN <<>>
    ELSE LET init == FirstSeenKeys(SubSeq(w, 1, Len(w) - 1))
             k == w[Len(w)].JENIS_TES
         IN IF InSeq(k, init) THEN init ELSE Append(init, k)

RECURSIVE SortedSeq(_)
\* The keys in ascending order.
SortedSeq(ks) ==
    IF ks = {} THEN <<>>
    ELSE LET m == CHOOSE k \in ks : \A o \in ks \ {k} : LexLess(k, o)
         IN << m >> \o SortedSeq(ks \ {m})

\* As GroupKeys, in first-seen order.
GroupKeysUnsorted(w) == FirstSeenKeys(w)

\* The keys work.groupby("JENIS_TES", dropna=False) iterates over: sort=True
\* is the default.
GroupKeys(w) == SortedSeq(KeySet(w))

\* As GroupRows, dropping the rows whose key is blank.
GroupRowsDropBlank(w, k) ==
    SelectSeq(w, LAMBDA row : row.JENIS_TES = k /\ k # <<>>)

\* The rows of one group, in table order.
GroupRows(w, k) == SelectSeq(w, LAMBDA row : row.JENIS_TES = k)

\* Lines 235-238: the dict of groups, in insertion order.
Groups(w) ==
    LET ks == GroupKeys(w)
    IN [g \in 1..Len(ks) |-> [key |-> ks[g], rows |-> GroupRows(w, ks[g])]]

\* Lines 266-268 and 275.
FileName(picked_nama, jenis) ==
    sanitize_filename(picked_nama) \o << "_" >> \o sanitize_filename(jenis)
        \o << ".", "x", "l", "s", "x" >>
WidgetKey(jenis) == << "d", "l", "_" >> \o sanitize_filename(jenis)


(***************************************************************************)
(* The script run.  Streamlit runs app.py top to bottom; st.stop() ends    *)
(* the run.  The uploaded files and the state of the widgets are the       *)
(* run's inputs.                                                           *)
(***************************************************************************)
VARIABLES
    pc,            \* the section of app.py the run is at
    peserta_up,    \* input: the participant sheet as read_sheet returns it
    ref_up,        \* input: the reference sheet as read_sheet returns it
    operator,      \* input: [pick, choice], the operator's widget choices
    df_peserta,    \* line 134-135
    df_ref_raw,    \* line 148-149
    df_ref,        \* line 159: rows [ID, NAMA, OPTION]
    picked,        \* lines 172-174: [ID, NAMA]
    auto_map,      \* lines 178-180
    required_map,  \* lines 190-196
    missing,       \* line 198
    work,          \* lines 208-228
    groups,        \* lines 235-238
    i,             \* the export loop's position in groups
    zip_names,     \* the names written to the archive, line 279
    dl_keys,       \* the keys of the download buttons created, line 275
    archive,       \* the file name of the archive offered, line 290
    msgs,          \* the st.error / st.warning / st.info messages shown
    reached,       \* the sections entered so far, in order
    x,             \* normalize_date_scalar's argument
    out            \* normalize_date_scalar's result

vars == << pc, peserta_up, ref_up, operator, df_peserta, df_ref_raw, df_ref,
           picked, auto_map, required_map, missing, work, groups, i,
           zip_names, dl_keys, archive, msgs, reached, x, out >>

inputs == << peserta_up, ref_up, operator >>
dateVars == << x, out >>

(***************************************************************************)
(* Bounds                                                                  *)
(***************************************************************************)
MaxRows == 3
MaxRefRows == 2
MaxRefCols == 3
MaxOverrides == 1

(***************************************************************************)
(* Inputs                                                                  *)
(***************************************************************************)
Range(seq) == { seq[j] : j \in 1..Len(seq) }
Reverse(seq) == [j \in 1..Len(seq) |-> seq[Len(seq) + 1 - j]]
SeqsUpTo(S, n) == UNION { [1..k -> S] : k \in 0..n }
Injective(seq) == \A a, b \in 1..Len(seq) : a # b => seq[a] # seq[b]

NoChoice == << "NoChoice" >>
NoChoices == [f \in FieldSet |-> NoChoice]

\* The operator changes at most MaxOverrides of the five select boxes, each to
\* an entry of col_list.
ChoicesFor(col_list) ==
    UNION { { [f \in FieldSet |-> IF f \in F THEN a[f] ELSE NoChoice] :
                a \in [F -> Range(col_list)] } :
            F \in { G \in SUBSET FieldSet : Cardinality(G) <= MaxOverrides } }

\* A reference sheet with one institution.
GoodRef ==
    Table(<< << "I", "D" >>, << "N", "A", "M", "A" >> >>,
          << << Str(<< " ", "1", "2", " " >>),
             Str(<< "D", "i", "n", "a", "s", ":", " ", "X" >>) >> >>)

\* A participant sheet on which every field resolves.
GoodPeserta ==
    Table(<< << "N", "O" >>, << "N", "A", "M", "A" >>, << "T", "M", "P", "_", "L", "A", "H", "I", "R" >>, << "T", "G", "L", "_", "L", "A", "H", "I", "R" >>, << "J", "E", "N", "I", "S", " ", "T", "E", "S" >> >>,
          << << Str(<< "0", "0", "7" >>), Str(<< "B", "u", "d", "i" >>),
             Str(<< "J", "a", "k", "a", "r", "t", "a" >>),
                Str(<< "0", "7", "/", "0", "8", "/", "1", "9", "9", "0" >>),
                   Str(<< "C", "A", "T" >>) >> >>)

\* Reference sheets: up to MaxRefCols distinct column names, up to MaxRefRows
\* rows.
RefColNames == { << "I", "D" >>, << "i", "d" >>, << "N", "A", "M", "A" >>, << "N", "a", "m", "a", " " >>, << "K", "O", "D", "E" >> }
RefCell(c, r) == Str(<< " ", c[1] >> \o NatToStr(r) \o << " " >>)
RefTables ==
    { Table(cs, [r \in 1..n |-> [c \in 1..Len(cs) |-> RefCell(cs[c], r)]]) :
        cs \in { s \in SeqsUpTo(RefColNames, MaxRefCols) : s # <<>> /\ Injective(s) },
        n \in 0..MaxRefRows }

\* Participant sheets that differ in their columns: the two birth columns and
\* any of five more, in either order; one row.
ColUniverse ==
    << << "N", "O" >>, << "N", "I", "P" >>, << " ", "N", "A", "M", "A", " " >>, << "n", "a", "m", "a" >>, << "J", "E", "N", "I", "S", " ", "T", "E", "S" >> >>
ColBase == << << "T", "M", "P", "_", "L", "A", "H", "I", "R" >>, << "T", "G", "L", "_", "L", "A", "H", "I", "R" >> >>
ColSeqs ==
    UNION { { ColBase \o SelectSeq(ColUniverse, LAMBDA c : c \in S),
              Reverse(ColBase \o SelectSeq(ColUniverse, LAMBDA c : c \in S)) } :
            S \in SUBSET Range(ColUniverse) }
ColTables ==
    { Table(cs, << [c \in 1..Len(cs) |-> Str(<< "7" >>)] >>) : cs \in ColSeqs }

\* Participant sheets that differ in their rows: up to MaxRows rows, each one
\* of RowSamples (NO, NAMA, TMP_LAHIR, TGL_LAHIR, JENIS TES).
RowSamples ==
    << << Str(<< "0", "0", "7" >>), Str(<< " ", "B", "u", "d", "i", " " >>),
       Str(<< "J", "a", "k", "a", "r", "t", "a" >>),
       Str(<< "0", "7", "/", "0", "8", "/", "1", "9", "9", "0" >>),
       Str(<< "C", "A", "T" >>) >>,
       << Str(<< "0", "0", "0", "1", "2", "3", ".", "0" >>), Str(<< "A", "n", "i" >>),
          Str(<< "B", "o", "g", "o", "r" >>), Str(<< "4", "5", "0", "0", "0" >>),
          Str(<< " ", "C", "A", "T", " " >>) >>,
       << Str(<< " ", "1", "2", ".", "0", " " >>), Str(<< "A", "n", "i" >>),
          Str(<< "B", "o", "g", "o", "r" >>),
          Str(<< "2", "0", "2", "4", "-", "1", "2", "-", "3", "1" >>),
          Str(<< "A", "/", "B" >>) >>,
       << Str(<< "1", ".", "0", ".", "0" >>), Str(<< "A", "n", "i" >>),
          Str(<< "B", "o", "g", "o", "r" >>),
          Str(<< "3", "1", " ", "D", "e", "c", " ", "2", "0", "2", "4" >>),
          Str(<< "A", ":", "B" >>) >>,
       << NaN, NaN, NaN, NaN, Str(<< " " >>) >>,
       << Str(<< "5", ".", "0", "0" >>), Str(<< "A", "n", "i" >>),
          Str(<< "B", "o", "g", "o", "r" >>),
          Str(<< "n", "o", "t", " ", "a", " ", "d", "a", "t", "e" >>),
          Str(<< " ", " " >>) >>,
       << Str(<< "1", "0" >>), Str(<< "A", "n", "i" >>), Str(<< "B", "o", "g", "o", "r" >>),
          Str(<< "3", "1", "/", "0", "2", "/", "2", "0", "2", "4" >>), NaN >>,
       << Str(<< ".", "0" >>), Str(<< "A", "n", "i" >>), Str(<< "B", "o", "g", "o", "r" >>),
          Str(<< "2", "0", "2", "4" >>), Str(<< "B", " ", "C" >>) >> >>
RowTables ==
    { Table(GoodPeserta.cols, [r \in 1..Len(sel) |-> RowSamples[sel[r]]]) :
        sel \in SeqsUpTo(1..Len(RowSamples), MaxRows) }

\* ["(pilih)"] + list(df_peserta.columns), line 182
ColList(df) == << Placeholder >> \o df.cols

Session(p, r, k, ch) ==
    [peserta |-> p, ref |-> r, op |-> [pick |-> k, choice |-> ch]]

Sessions ==
    { Session(GoodPeserta, r, k, NoChoices) :
        r \in { t \in RefTables : TRUE }, k \in 0..MaxRefRows }
    \cup { Session(p, r, 1, NoChoices) :
             p \in {NoFile, GoodPeserta}, r \in {NoFile, GoodRef} }
    \cup UNION { { Session(p, GoodRef, 1, ch) :
                     ch \in ChoicesFor(ColList(StripColumns(p))) } :
                 p \in ColTables }
    \cup { Session(p, GoodRef, 1, NoChoices) : p \in RowTables }

(***************************************************************************)
(* Initial state: nothing has run.                                         *)
(***************************************************************************)
Idle ==
    /\ df_peserta = NoFile
    /\ df_ref_raw = NoFile
    /\ df_ref = <<>>
    /\ picked = [ID |-> <<>>, NAMA |-> <<>>]
    /\ auto_map = [f \in FieldSet |-> None]
    /\ required_map = [f \in FieldSet |-> None]
    /\ missing = <<>>
    /\ work = <<>>
    /\ groups = <<>>
    /\ i = 0
    /\ zip_names = <<>>
    /\ dl_keys = <<>>
    /\ archive = <<>>
    /\ msgs = <<>>
    /\ reached = <<>>

Init ==
    /\ pc = "peserta"
    /\ \E s \in Sessions :
          /\ peserta_up = s.peserta
          /\ ref_up = s.ref
          /\ operator = s.op
    /\ Idle
    /\ x = PyNone
    /\ out = <<>>

(***************************************************************************)
(* Sections of the script                                                  *)
(***************************************************************************)
Stop(m) ==
    /\ pc' = "stopped"
    /\ msgs' = Append(msgs, m)

\* Lines 130-139.
UploadPeserta ==
    /\ pc = "peserta"
    /\ df_peserta' = IF peserta_up.present THEN StripColumns(peserta_up) ELSE NoFile
    /\ msgs' = IF peserta_up.present THEN msgs ELSE Append(msgs, "upload_peserta")
    /\ reached' = Append(reached, "peserta")
    /\ pc' = "ref"
    /\ UNCHANGED << inputs, df_ref_raw, df_ref, picked, auto_map, required_map,
                    missing, work, groups, i, zip_names, dl_keys, archive, dateVars >>

\* Lines 144-153.
UploadRef ==
    /\ pc = "ref"
    /\ df_ref_raw' = IF ref_up.present THEN StripColumns(ref_up) ELSE NoFile
    /\ msgs' = IF ref_up.present THEN msgs ELSE Append(msgs, "upload_ref")
    /\ reached' = Append(reached, "ref")
    /\ pc' = "build_ref"
    /\ UNCHANGED << inputs, df_peserta, df_ref, picked, auto_map, required_map,
                    missing, work, groups, i, zip_names, dl_keys, archive, dateVars >>

\* Lines 158-159 with build_ref_options (53-65), and 294-295.
BuildRefOptions ==
    /\ pc = "build_ref"
    /\ reached' = Append(reached, "build_ref")
    /\ IF ~(df_peserta.present /\ df_ref_raw.present)
       THEN /\ pc' = "stopped"
            /\ UNCHANGED << df_ref, msgs >>
       ELSE LET id_col == LowerLookup(df_ref_raw.cols, << "i", "d" >>)
                nama_col == LowerLookup(df_ref_raw.cols, << "n", "a", "m", "a" >>)
            IN IF id_col = None \/ nama_col = None
               THEN /\ Stop("ref_columns")
                    /\ UNCHANGED df_ref
               ELSE /\ df_ref' = RefOptions(df_ref_raw, id_col, nama_col)
                    /\ pc' = "pick"
                    /\ UNCHANGED msgs
    /\ UNCHANGED << inputs, df_peserta, df_ref_raw, picked, auto_map, required_map,
                    missing, work, groups, i, zip_names, dl_keys, archive, dateVars >>

\* Lines 161-174: the select box offers df_ref's options and starts unset.
PickInstitution ==
    /\ pc = "pick"
    /\ reached' = Append(reached, "pick")
    /\ IF operator.pick = 0 \/ operator.pick > Len(df_ref)
       THEN /\ Stop("pick_institution")
            /\ UNCHANGED picked
       ELSE LET picked_option == df_ref[operator.pick].OPTION
                row == df_ref[CHOOSE r \in 1..Len(df_ref) :
                                  /\ df_ref[r].OPTION = picked_option
                                  /\ \A q \in 1..(r - 1) : df_ref[q].OPTION # picked_option]
            IN /\ picked' = [ID |-> row.ID, NAMA |-> row.NAMA]
               /\ pc' = "mapping"
               /\ UNCHANGED msgs
    /\ UNCHANGED << inputs, df_peserta, df_ref_raw, df_ref, auto_map, required_map,
                    missing, work, groups, i, zip_names, dl_keys, archive, dateVars >>

\* Lines 178-180.
AutoMap(df) ==
    [f \in FieldSet |-> pick_first_existing(df.cols, COLMAP_CANDIDATES[f])]

\* Lines 184-188: a select box returns the operator's choice, or else the
\* entry at its default index: the resolved column, or the placeholder.
Selected(choice, auto) ==
    IF choice # NoChoice THEN choice
    ELSE IF auto # None THEN auto ELSE Placeholder

\* Lines 190-196.
RequiredMap(df, choice) ==
    [f \in FieldSet |->
        LET src == Selected(choice[f], AutoMap(df)[f])
        IN IF src # Placeholder THEN src ELSE None]

\* As MissingFields, stopping at the first field found.
MissingFirstOnly(rmap) ==
    LET all == SelectSeq(Fields, LAMBDA f : rmap[f] = None)
    IN IF all = <<>> THEN <<>> ELSE << Head(all) >>

\* Line 198.
MissingFields(rmap) == SelectSeq(Fields, LAMBDA f : rmap[f] = None)

\* Lines 177-201.
Mapping ==
    /\ pc = "mapping"
    /\ reached' = Append(reached, "mapping")
    /\ auto_map' = AutoMap(df_peserta)
    /\ required_map' = RequiredMap(df_peserta, operator.choice)
    /\ missing' = MissingFields(required_map')
    /\ IF missing' # <<>> THEN Stop("mapping_incomplete")
       ELSE pc' = "transform" /\ UNCHANGED msgs
    /\ UNCHANGED << inputs, df_peserta, df_ref_raw, df_ref, picked, work, groups, i,
                    zip_names, dl_keys, archive, dateVars >>

\* Lines 203-233.
Transform ==
    /\ pc = "transform"
    /\ reached' = Append(reached, "transform")
    /\ work' = WorkRows(df_peserta, required_map, picked)
    /\ IF JenisEmpty(work') THEN Stop("jenis_empty")
       ELSE pc' = "group" /\ UNCHANGED msgs
    /\ UNCHANGED << inputs, df_peserta, df_ref_raw, df_ref, picked, auto_map,
                    required_map, missing, groups, i, zip_names, dl_keys, archive,
                    dateVars >>

\* Lines 235-254.
Group ==
    /\ pc = "group"
    /\ reached' = Append(reached, "group")
    /\ groups' = Groups(work)
    /\ i' = 1
    /\ pc' = "export"
    /\ UNCHANGED << inputs, df_peserta, df_ref_raw, df_ref, picked, auto_map,
                    required_map, missing, work, zip_names, dl_keys, archive, msgs,
                    dateVars >>

\* Lines 256-279, one pass of the loop: Streamlit raises on a second widget
\* with a key already used in the run, before the file is added to the archive.
ExportGroup ==
    /\ pc = "export"
    /\ i <= Len(groups)
    /\ reached' = IF i = 1 THEN Append(reached, "export") ELSE reached
    /\ LET jenis == groups[i].key
       IN IF InSeq(WidgetKey(jenis), dl_keys)
          THEN /\ pc' = "crashed"
               /\ msgs' = Append(msgs, "duplicate_widget_key")
               /\ UNCHANGED << i, zip_names, dl_keys >>
          ELSE /\ dl_keys' = Append(dl_keys, WidgetKey(jenis))
               /\ zip_names' = Append(zip_names, FileName(picked.NAMA, jenis))
               /\ i' = i + 1
               /\ UNCHANGED << pc, msgs >>
    /\ UNCHANGED << inputs, df_peserta, df_ref_raw, df_ref, picked, auto_map,
                    required_map, missing, work, groups, archive, dateVars >>

\* Lines 281-293.
DownloadAll ==
    /\ pc = "export"
    /\ i > Len(groups)
    /\ archive' = sanitize_filename(picked.NAMA) \o << "_", "A", "L", "L", "_", "J", "E", "N", "I", "S", "_", "T", "E", "S", ".", "z", "i", "p" >>
    /\ reached' = Append(reached, "zip")
    /\ pc' = "done"
    /\ UNCHANGED << inputs, df_peserta, df_ref_raw, df_ref, picked, auto_map,
                    required_map, missing, work, groups, i, zip_names, dl_keys, msgs,
                    dateVars >>

Next ==
    \/ UploadPeserta
    \/ UploadRef
    \/ BuildRefOptions
    \/ PickInstitution
    \/ Mapping
    \/ Transform
    \/ Group
    \/ ExportGroup
    \/ DownloadAll

Spec == Init /\ [][Next]_vars


(***************************************************************************)
(* normalize_date_scalar on its own: one call on one cell.                 *)
(***************************************************************************)
DaySamples == {0, 1, 12, 13, 29, 31, 32}
MonthSamples == {0, 1, 2, 12, 13}
YearSamples == {1600, 1677, 1900, 2024, 2262, 2300}

\* The ways a day, month and year are written.
Render(d, m, y, style) ==
    CASE style = "dd/mm/yyyy" -> Pad2(d) \o << "/" >> \o Pad2(m) \o << "/" >> \o NatToStr(y)
      [] style = "d/m/yyyy" -> NatToStr(d) \o << "/" >> \o NatToStr(m) \o << "/" >> \o NatToStr(y)
      [] style = "dd-mm-yyyy" -> Pad2(d) \o << "-" >> \o Pad2(m) \o << "-" >> \o NatToStr(y)
      [] style = "yyyy-mm-dd" -> NatToStr(y) \o << "-" >> \o Pad2(m) \o << "-" >> \o Pad2(d)
      [] style = "yyyy/mm/dd" -> NatToStr(y) \o << "/" >> \o Pad2(m) \o << "/" >> \o Pad2(d)
      [] style = "d Mon yyyy" ->
           NatToStr(d) \o << " " >> \o (IF m \in 1..12 THEN MonthAbbr[m] ELSE << "F", "o", "o" >>)
               \o << " " >> \o NatToStr(y)
      [] style = "d Month yyyy" ->
           NatToStr(d) \o << " " >> \o (IF m \in 1..12 THEN MonthFull[m] ELSE << "F", "o", "o" >>)
               \o << " " >> \o NatToStr(y)

Styles ==
    { "dd/mm/yyyy", "d/m/yyyy", "dd-mm-yyyy", "yyyy-mm-dd", "yyyy/mm/dd",
      "d Mon yyyy", "d Month yyyy" }

NumberSamples == {-1, 0, 1, 60, 45000}

TextSamples ==
    { <<>>, << " ", " " >>, << "n", "o", "t", " ", "a", " ", "d", "a", "t", "e" >>, << " ", "x", " " >>, << "n", "a", "n" >>, << "N", "a", "T" >>,
      << "0" >>, << "1" >>, << "5", "9" >>, << "6", "0" >>, << "6", "1" >>, << "0", "0", "7" >>, << "9", "9", "9" >>, << "1", "0", "0", "0" >>, << "1", "6", "7", "7" >>,
      << "1", "6", "7", "8" >>, << "2", "0", "2", "4" >>, << "2", "2", "6", "2" >>, << "2", "2", "6", "3" >>, << "9", "9", "9", "9" >>, << "4", "5", "0", "0", "0" >>,
      << "9", "9", "9", "9", "9" >>, << "1", ".", "5" >>, << "6", "0", ".", "0" >>, << " ", "3", "1", "/", "1", "2", "/", "2", "0", "2", "4", " " >> }

RawCells ==
    {PyNone, NaN}
    \cup { Num(n) : n \in NumberSamples }
    \cup { Str(s) : s \in TextSamples }
    \cup { Str(Render(d, m, y, st)) :
             d \in DaySamples, m \in MonthSamples, y \in YearSamples, st \in Styles }

InitDate ==
    /\ pc = "date"
    /\ x \in RawCells
    /\ out = <<>>
    /\ peserta_up = NoFile
    /\ ref_up = NoFile
    /\ operator = [pick |-> 0, choice |-> NoChoices]
    /\ Idle

\* Lines 67-100.
NormalizeDate ==
    /\ pc = "date"
    /\ out' = normalize_date_scalar(x)
    /\ pc' = "date_done"
    /\ UNCHANGED << inputs, df_peserta, df_ref_raw, df_ref, picked, auto_map,
                    required_map, missing, work, groups, i, zip_names, dl_keys,
                    archive, msgs, reached, x >>

NextDate == NormalizeDate

SpecDate == InitDate /\ [][NextDate]_vars

(***************************************************************************)
(* Properties                                                              *)
(***************************************************************************)
Last(seq) == seq[Len(seq)]
Entered(section) == InSeq(section, reached)
Grouped == pc \in {"export", "done", "crashed"}

\* The text of a cell as the transformation sees it, trimmed.
TrimmedText(cell) == IF cell.t = "str" THEN Strip(cell.s) ELSE << "n", "a", "n" >>

\* The input cell of row r in the column chosen for field f.
InputCell(f, r) == Column(df_peserta, required_map[f])[r]

NoOutput ==
    /\ work = <<>>
    /\ groups = <<>>
    /\ zip_names = <<>>
    /\ dl_keys = <<>>
    /\ archive = <<>>

RECURSIVE SumLen(_)
SumLen(gs) == IF gs = <<>> THEN 0 ELSE Len(Head(gs).rows) + SumLen(Tail(gs))

\* C1: once the groups are built, their row counts add up to the number of
\* input rows, and every input row is in exactly one group, the one whose key
\* is the row's trimmed JENIS_TES text.
C1_GroupingComplete ==
    Grouped =>
        /\ SumLen(groups) = Len(df_peserta.rows)
        /\ \A r \in 1..Len(df_peserta.rows) :
              LET places == { gj \in UNION { { << g, j >> : j \in 1..Len(groups[g].rows) } :
                                             g \in 1..Len(groups) } :
                                groups[gj[1]].rows[gj[2]].src = r }
              IN /\ Cardinality(places) = 1
                 /\ \A gj \in places :
                       groups[gj[1]].key = TrimmedText(InputCell("JENIS_TES", r))

C1_Witness ==
    /\ pc = "done"
    /\ Len(groups) = 2
    /\ Len(df_peserta.rows) = 3
    /\ groups[2].key = << "C", "A", "T" >>
    /\ Len(groups[2].rows) = 2
    /\ InputCell("JENIS_TES", 2) = Str(<< " ", "C", "A", "T", " " >>)
    /\ groups[1].key = <<>>

\* A field is unresolved when the operator chose the placeholder, or chose
\* nothing and no alias of the field is a column.
Unresolved(f) ==
    \/ operator.choice[f] = Placeholder
    \/ /\ operator.choice[f] = NoChoice
       /\ \A a \in 1..Len(COLMAP_CANDIDATES[f]) :
             ~InSeq(COLMAP_CANDIDATES[f][a], df_peserta.cols)

\* C2: when the mapping section has run with a field unresolved, the run has
\* stopped with the mapping error, the list reported is exactly the unresolved
\* fields, and there is no work table, group, export or archive.
C2_UnresolvedIsFatal ==
    (Entered("mapping") /\ \E f \in FieldSet : Unresolved(f)) =>
        /\ pc = "stopped"
        /\ Last(msgs) = "mapping_incomplete"
        /\ Range(missing) = { f \in FieldSet : Unresolved(f) }
        /\ Len(missing) = Cardinality(Range(missing))
        /\ NoOutput
        /\ ~Entered("transform")

C2_Witness ==
    /\ pc = "stopped"
    /\ Entered("mapping")
    /\ missing = << "NO_PESERTA", "TGL_LAHIR" >>
    /\ operator.choice["TGL_LAHIR"] = Placeholder
    /\ auto_map["TGL_LAHIR"] = << "T", "G", "L", "_", "L", "A", "H", "I", "R" >>

IsIsoDate(s) ==
    /\ Len(s) = 10
    /\ s[5] = "-"
    /\ s[8] = "-"
    /\ \A j \in {1, 2, 3, 4, 6, 7, 9, 10} : IsDigit(s[j])

\* C3: for every cell, normalize_date_scalar returns the empty text or a text
\* of the form YYYY-MM-DD.
C3_DateTotal ==
    pc = "date_done" => (out = <<>> \/ IsIsoDate(out))

C3_Witness ==
    /\ pc = "date_done"
    /\ x = NaN
    /\ out = <<>>

\* A numeric cell: a number, or digits with an optional decimal part.
IsNumericCell(c) == c.t = "num" \/ (c.t = "str" /\ IsNumericText(c.s))
SerialOf(c) == IF c.t = "num" THEN c.n ELSE FloatFloor(c.s)
SerialDate(n) ==
    LET c == CivilFromDays(DaysFromCivil(1899, 12, 30) + n)
    IN Strftime(TS(c.y, c.m, c.d))

\* C4: a numeric cell with a non-negative serial is normalized to the date
\* that many days after 1899-12-30.
C4_SerialDate ==
    (pc = "date_done" /\ IsNumericCell(x) /\ SerialOf(x) >= 0) =>
        out = SerialDate(SerialOf(x))

\* C5: the output NIP is the trimmed cell text, less one trailing ".0" when
\* the trimmed text ends with it, and otherwise unchanged.
C5_NipPreserved ==
    (Entered("transform") /\ pc # "transform") =>
        /\ Len(work) = Len(df_peserta.rows)
        /\ \A r \in 1..Len(work) :
              LET t == TrimmedText(InputCell("NO_PESERTA", r))
              IN IF EndsWith(t, << ".", "0" >>)
                 THEN work[r].NIP \o << ".", "0" >> = t
                 ELSE work[r].NIP = t

C5_Witness ==
    /\ pc = "done"
    /\ Len(work) = 2
    /\ InputCell("NO_PESERTA", 1) = Str(<< "0", "0", "0", "1", "2", "3", ".", "0" >>)
    /\ work[1].NIP = << "0", "0", "0", "1", "2", "3" >>
    /\ InputCell("NO_PESERTA", 2) = Str(<< "5", ".", "0", "0" >>)
    /\ work[2].NIP = << "5", ".", "0", "0" >>

\* The position of the first input row whose trimmed JENIS_TES is k.
FirstRowOf(k) ==
    CHOOSE r \in 1..Len(df_peserta.rows) :
        /\ TrimmedText(InputCell("JENIS_TES", r)) = k
        /\ \A q \in 1..(r - 1) : TrimmedText(InputCell("JENIS_TES", q)) # k

RowsInTableOrder ==
    \A g \in 1..Len(groups) :
        \A a, b \in 1..Len(groups[g].rows) :
            a < b => groups[g].rows[a].src < groups[g].rows[b].src

ExportsInGroupOrder ==
    \A j \in 1..Len(zip_names) : zip_names[j] = FileName(picked.NAMA, groups[j].key)

\* C6 as stated: rows keep their order within a group, and the groups come in
\* the order in which their keys first appear in the input table.
C6_FirstSeenOrder ==
    Grouped =>
        /\ RowsInTableOrder
        /\ \A g, h \in 1..Len(groups) :
              g < h => FirstRowOf(groups[g].key) < FirstRowOf(groups[h].key)

\* C6 amended: rows keep their order within a group, and the groups (and the
\* exports after them) come in ascending order of their keys.
C6_SortedOrder ==
    Grouped =>
        /\ RowsInTableOrder
        /\ \A g, h \in 1..Len(groups) :
              g < h => LexLess(groups[g].key, groups[h].key)
        /\ ExportsInGroupOrder

C6_Witness ==
    /\ pc = "done"
    /\ Len(groups) = 2
    /\ groups[1].key = << "B", " ", "C" >>
    /\ groups[2].key = << "C", "A", "T" >>
    /\ Len(groups[2].rows) = 2
    /\ FirstRowOf(<< "C", "A", "T" >>) = 1
    /\ FirstRowOf(<< "B", " ", "C" >>) = 2

\* A JENIS_TES cell that is blank text or missing.
BlankOrAbsent(cell) == cell.t = "nan" \/ (cell.t = "str" /\ Strip(cell.s) = <<>>)

\* C7: when every row's JENIS_TES cell is blank or absent (also with no rows),
\* the run stops at the "JENIS_TES empty" notice and exports nothing.
C7_DegenerateStops ==
    (Entered("transform") /\ pc # "transform"
       /\ \A r \in 1..Len(df_peserta.rows) : BlankOrAbsent(InputCell("JENIS_TES", r))) =>
        /\ pc = "stopped"
        /\ Last(msgs) = "jenis_empty"
        /\ groups = <<>>
        /\ zip_names = <<>>
        /\ archive = <<>>

\* Two letters equal up to case.
SameLetter(c, d) ==
    c = d \/ \E j \in 1..Len(Upper) : {c, d} = {Upper[j], Lowers[j]}
SameName(s, t) ==
    Len(s) = Len(t) /\ \A j \in 1..Len(s) : SameLetter(s[j], t[j])
RefHas(name) == \E c \in 1..Len(df_ref_raw.cols) : SameName(df_ref_raw.cols[c], name)
RefComplete == RefHas(<< "I", "D" >>) /\ RefHas(<< "N", "A", "M", "A" >>)
BothUploaded == peserta_up.present /\ ref_up.present
Offered == pc = "pick" \/ Entered("pick")

SectionOrder ==
    << "peserta", "ref", "build_ref", "pick", "mapping", "transform", "group",
       "export", "zip" >>

\* C8: a reference table without an ID or a NAMA column (case-insensitive)
\* stops the run with an error before the institution is offered; a complete
\* one gets the institution offered; and the sections are entered only in
\* order, each after the gate before it has passed.
C8_GateOrder ==
    /\ Len(reached) <= Len(SectionOrder)
    /\ reached = SubSeq(SectionOrder, 1, Len(reached))
    /\ (Entered("build_ref") /\ BothUploaded /\ ~RefComplete) =>
          /\ pc = "stopped"
          /\ Last(msgs) = "ref_columns"
          /\ ~Offered
          /\ NoOutput
    /\ (Entered("build_ref") /\ BothUploaded /\ RefComplete) => Offered
    /\ Offered => BothUploaded /\ RefComplete
    /\ Entered("mapping") =>
          /\ operator.pick \in 1..Len(df_ref)
          /\ picked.NAMA = df_ref[operator.pick].NAMA
    /\ Entered("transform") =>
          \A f \in FieldSet : InSeq(required_map[f], df_peserta.cols)
    /\ Entered("group") => \E r \in 1..Len(work) : work[r].JENIS_TES # <<>>
    /\ (zip_names # <<>> \/ archive # <<>>) => Entered("export")

C8_Witness ==
    /\ pc = "stopped"
    /\ BothUploaded
    /\ Last(msgs) = "ref_columns"
    /\ RefHas(<< "I", "D" >>)
    /\ ~RefHas(<< "N", "A", "M", "A" >>)
    /\ reached = << "peserta", "ref", "build_ref" >>

ColumnSet == Range(df_peserta.cols)

\* C9: after the mapping section, each field's automatic column is its first
\* alias that is a column of the table (whatever the order of the columns),
\* none exactly when no alias is a column; the column used is the operator's
\* choice where there is one and the automatic column otherwise.
C9_AutoResolution ==
    Entered("mapping") =>
        \A f \in FieldSet :
            LET cands == COLMAP_CANDIDATES[f]
            IN /\ (auto_map[f] = None) <=> (\A a \in 1..Len(cands) : cands[a] \notin ColumnSet)
               /\ auto_map[f] # None =>
                     \E a \in 1..Len(cands) :
                         /\ cands[a] = auto_map[f]
                         /\ cands[a] \in ColumnSet
                         /\ \A b \in 1..(a - 1) : cands[b] \notin ColumnSet
               /\ required_map[f] =
                     IF operator.choice[f] = NoChoice THEN auto_map[f]
                     ELSE IF operator.choice[f] = Placeholder THEN None
                     ELSE operator.choice[f]

C9_Witness ==
    /\ Entered("mapping")
    /\ << "N", "O" >> \in ColumnSet
    /\ << "N", "I", "P" >> \in ColumnSet
    /\ IndexOf(df_peserta.cols, << "N", "O" >>) < IndexOf(df_peserta.cols, << "N", "I", "P" >>)
    /\ auto_map["NO_PESERTA"] = << "N", "I", "P" >>
    /\ auto_map["NAMA"] = None
    /\ operator.choice["NAMA"] = << "n", "a", "m", "a" >>
    /\ required_map["NAMA"] = << "n", "a", "m", "a" >>
    /\ required_map["NO_PESERTA"] = << "N", "I", "P" >>

\* C10: the export file names and the download keys of two different groups
\* differ, and a finished run's archive holds one entry per group.
C10_DistinctExports ==
    Grouped =>
        /\ \A g, h \in 1..Len(groups) :
              g # h =>
                /\ FileName(picked.NAMA, groups[g].key) # FileName(picked.NAMA, groups[h].key)
                /\ WidgetKey(groups[g].key) # WidgetKey(groups[h].key)
        /\ pc # "crashed"
        /\ pc = "done" => Len(zip_names) = Len(groups) /\ Injective(zip_names)

=============================================================================
